---- MODULE Spec2Model ----
(***************************************************************************)
(* Model of ibmcloud-cos-rs:                                               *)
(*   - the multipart upload run of src/bin/multipart-upload.rs over the    *)
(*     client operations of src/multipartupload.rs        (SpecUpload)     *)
(*   - the listing iterator ObjectIterator of src/cos.rs  (SpecList)       *)
(*   - header canonicalisation and sign of src/hmac.rs    (SpecSign)       *)
(* The three parts share no state; each specification moves its own        *)
(* variables and leaves the others at their initial value.                 *)
(***************************************************************************)
EXTENDS Integers, Sequences, FiniteSets, TLC

VARIABLES
    \* ---- multipart upload run (src/bin/multipart-upload.rs, main) ----
    pc,          \* position of main: open, create, read, upload, complete, abort, exit
    bucket,      \* args.bucket
    key,         \* args.key
    remaining,   \* bytes of the input file not yet read
    chunk_len,   \* n, the length of the chunk after truncate(n)
    upload_id,   \* the id returned by create_multipart_upload
    parts,       \* Vec<Part>
    calls,       \* history: the client operations invoked, in order, with outcome
    chunks,      \* history: the lengths of the non-empty chunks read, in order
    result,      \* what main returned: running, Ok, Err, panic
    err,         \* the error carried by main's Err
    \* ---- listing iterator (src/cos.rs, ObjectIterator) ----
    continuation_token,
    results,     \* VecDeque<Contents>
    complete,    \* completion flag
    ret,         \* value returned by the latest call of next
    fetchlog,    \* history: the page fetches issued, in order
    fetched,     \* history: items of all successfully fetched pages, in order
    yielded,     \* history: items returned by next, in order
    \* ---- signing (src/hmac.rs) ----
    spc,         \* input, signed
    headers,     \* BTreeMap<String, String> passed to sign
    creq,        \* the canonical request built by sign
    auth         \* the Authorization header value returned by sign

uploadVars == <<pc, bucket, key, remaining, chunk_len, upload_id, parts, calls, chunks,
               result, err>>
listVars   == <<continuation_token, results, complete, ret, fetchlog, fetched, yielded>>
signVars   == <<spc, headers, creq, auth>>
vars       == <<uploadVars, listVars, signVars>>

None == "None"

(***************************************************************************)
(* Bounds                                                                  *)
(***************************************************************************)
MaxShort == 2       \* reads that may come back short, per run
MaxFetches == 3     \* page fetches per listing
MaxPageItems == 2   \* items on one listing page
MaxHeaders == 3     \* entries of a header map

(***************************************************************************)
(* Multipart upload                                                        *)
(***************************************************************************)
MB == 1048576
ChunkSize == 5 * MB

Buckets == {"b1", "b2"}
Keys == {"k1", "k2"}
UploadIds == {"u1", "u2"}
Etags == {"e1", "e2"}
FileSizes == {0, 1, ChunkSize, ChunkSize + 1, 2 * ChunkSize + 1}

Min(a, b) == IF a < b THEN a ELSE b

\* Outcomes of one client operation: ok, or the `?` that returned early.
\*   token  : self.tm.token()? failed, no request was sent
\*   send   : .send()? failed (transport)
\*   status : check_response found a non-2xx status
RequestFailures == {"token", "send", "status"}

NoErr == [op |-> "none", kind |-> "none"]
Failure(op, kind) == [op |-> op, kind |-> kind]

\* One entry of the history of client operations: the arguments passed, the
\* outcome, and what the server answered (the upload id of create, the ETag
\* of upload_part).
Call(op, uid, seq, len, ps, outcome, answer) ==
    [op |-> op, bucket |-> bucket, key |-> key, upload_id |-> uid,
     part_number |-> seq, len |-> len, parts |-> ps, outcome |-> outcome,
     answer |-> answer]

\* file.read(&mut chunk[..]) with a buffer of 5 MB: the full amount, or fewer
\* bytes before end of stream; 0 only at end of stream.
ReadSizes(rem, nparts) ==
    LET full == Min(ChunkSize, rem) IN
    {full} \cup (IF nparts < MaxShort
                 THEN {n \in {1, full - 1} : n >= 1 /\ n < full}
                 ELSE {})

\* a numbering that starts at 0
SeqNoFromZero(ps) == Len(ps)

\* let seq_no = parts.len() + 1;
SeqNo(ps) == Len(ps) + 1

\* Part { etag, part_number: sequence_number }
NewPart(etag, sequence_number) == [etag |-> etag, part_number |-> sequence_number]

\* a run that forgets the cleanup
AfterCompleteNoAbort(outcome) == "exit"

\* if let Err(_) = c.complete_multipart_upload(..) { abort } ; Ok(())
AfterComplete(outcome) == IF outcome # "ok" THEN "abort" ELSE "exit"

\* an error that is dropped: the run carries on with the loop
FailIgnored(op, kind) ==
    /\ pc' = "read"
    /\ result' = result
    /\ err' = err

\* main returns Err(e) through a `?`
Fail(op, kind) ==
    /\ pc' = "exit"
    /\ result' = "Err"
    /\ err' = Failure(op, kind)

\* let mut file = File::open(args.filename)?;
OpenFile ==
    /\ pc = "open"
    /\ \/ /\ pc' = "create"
          /\ UNCHANGED <<result, err>>
       \/ Fail("open", "io")
    /\ UNCHANGED <<bucket, key, remaining, chunk_len, upload_id, parts, calls, chunks>>
    /\ UNCHANGED <<listVars, signVars>>

\* let upload_id = c.create_multipart_upload(&args.bucket, &args.key)?;
CreateMultipartUpload ==
    /\ pc = "create"
    /\ \/ \E uid \in UploadIds :
            /\ upload_id' = uid
            /\ calls' = Append(calls, Call("create", None, 0, 0, <<>>, "ok", uid))
            /\ pc' = "read"
            /\ UNCHANGED <<result, err>>
       \/ \E kind \in RequestFailures \cup {"text", "parse"} :
            /\ calls' = Append(calls, Call("create", None, 0, 0, <<>>, kind, None))
            /\ Fail("create", kind)
            /\ UNCHANGED upload_id
    /\ UNCHANGED <<bucket, key, remaining, chunk_len, parts, chunks>>
    /\ UNCHANGED <<listVars, signVars>>

\* loop { let n = file.read(&mut chunk[..])?; if n == 0 { break; } chunk.truncate(n); ..
ReadChunk ==
    /\ pc = "read"
    /\ \/ \E n \in ReadSizes(remaining, Len(parts)) :
            /\ remaining' = remaining - n
            /\ chunk_len' = n
            /\ chunks' = IF n = 0 THEN chunks ELSE Append(chunks, n)
            /\ pc' = IF n = 0 THEN "complete" ELSE "upload"
            /\ UNCHANGED <<result, err>>
       \/ /\ Fail("read", "io")
          /\ UNCHANGED <<remaining, chunk_len, chunks>>
    /\ UNCHANGED <<bucket, key, upload_id, parts, calls>>
    /\ UNCHANGED <<listVars, signVars>>

\* let part = c.upload_part(.., &upload_id, seq_no, chunk)?; parts.push(part);
UploadPart ==
    /\ pc = "upload"
    /\ LET seq_no == SeqNo(parts) IN
       \/ \E etag \in Etags :
            /\ parts' = Append(parts, NewPart(etag, seq_no))
            /\ calls' = Append(calls, Call("upload_part", upload_id, seq_no, chunk_len, <<>>, "ok", etag))
            /\ pc' = "read"
            /\ UNCHANGED <<result, err>>
       \/ \E kind \in RequestFailures :
            /\ calls' = Append(calls, Call("upload_part", upload_id, seq_no, chunk_len, <<>>, kind, None))
            /\ Fail("upload_part", kind)
            /\ UNCHANGED parts
       \/ \* resp.headers()[ETAG] / to_str().unwrap() panics on a 2xx answer
          \* without a usable ETag header
          /\ calls' = Append(calls, Call("upload_part", upload_id, seq_no, chunk_len, <<>>, "panic", None))
          /\ pc' = "exit"
          /\ result' = "panic"
          /\ UNCHANGED <<err, parts>>
    /\ UNCHANGED <<bucket, key, remaining, chunk_len, upload_id, chunks>>
    /\ UNCHANGED <<listVars, signVars>>

\* let cmu = CompleteMultipartUpload { parts };
\* if let Err(_) = c.complete_multipart_upload(.., &upload_id, cmu) { .. } Ok(())
CompleteMultipartUpload ==
    /\ pc = "complete"
    /\ \E outcome \in {"ok"} \cup RequestFailures :
         /\ calls' = Append(calls, Call("complete", upload_id, 0, 0, parts, outcome, None))
         /\ pc' = AfterComplete(outcome)
         /\ result' = IF AfterComplete(outcome) = "exit" THEN "Ok" ELSE result
    /\ UNCHANGED <<bucket, key, remaining, chunk_len, upload_id, parts, chunks, err>>
    /\ UNCHANGED <<listVars, signVars>>

\* let _ = c.abort_multipart_upload(.., &upload_id)?;  then Ok(())
AbortMultipartUpload ==
    /\ pc = "abort"
    /\ \/ /\ calls' = Append(calls, Call("abort", upload_id, 0, 0, <<>>, "ok", None))
          /\ pc' = "exit"
          /\ result' = "Ok"
          /\ UNCHANGED err
       \/ \E kind \in RequestFailures :
            /\ calls' = Append(calls, Call("abort", upload_id, 0, 0, <<>>, kind, None))
            /\ Fail("abort", kind)
    /\ UNCHANGED <<bucket, key, remaining, chunk_len, upload_id, parts, chunks>>
    /\ UNCHANGED <<listVars, signVars>>

(***************************************************************************)
(* Listing iterator (src/cos.rs)                                           *)
(***************************************************************************)
Tokens == {"t1", "t2"}

\* Ways _list_objects returns Err: the request failures, a body that cannot be
\* read, a body without any Contents element ("No contents in bucket"), and
\* any other deserialization error.
ListFailures == RequestFailures \cup {"text", "nocontents", "parse"}

\* The error _list_objects returns: Err("No contents in bucket".into()) when
\* from_str reports the missing field `Contents`, Err(Box::new(e)) for any other
\* deserialization error, the error of the `?` otherwise.
ListError(kind) == IF kind = "nocontents" THEN "No contents in bucket" ELSE kind

\* contents: Vec<Contents> has no serde default, so a body that deserializes
\* carries at least one Contents element (a body with none is "nocontents").
PageSizes == 1..MaxPageItems

\* what next returned: Some(item), None, or a panic of the unwrap; "new" before
\* the first call
Some(v) == [kind |-> "Some", item |-> v]
RetNone == [kind |-> "None", item |-> 0]
RetPanic == [kind |-> "panic", item |-> 0]
RetNew == [kind |-> "new", item |-> 0]
RetIdle == [kind |-> "idle", item |-> 0]
Last(s) == s[Len(s)]

\* a buffer refilled while it still holds an item
NeedFetchEager(rs) == Len(rs) < 2

\* if self.results.len() < 1 {
NeedFetch(rs) == Len(rs) < 1

\* for o in v.contents.drain(..) { self.results.push_back(o); }
PushBackAll(rs, contents) == rs \o contents

\* an iterator that never records the end of the listing
CompleteAfterNever(next_token, flag) == flag

\* if v.next_token.is_some() { .. } else { self.complete = true; }
CompleteAfter(next_token, flag) == IF next_token # None THEN flag ELSE TRUE

\* if v.next_token.is_some() { self.continuation_token = v.next_token; }
TokenAfter(next_token, tok) == IF next_token # None THEN next_token ELSE tok

\* Some(self.results.pop_front().unwrap()) on buffer rs
PopFront(rs) ==
    IF rs = <<>>
    THEN /\ ret' = RetPanic
         /\ results' = rs
         /\ UNCHANGED yielded
    ELSE /\ ret' = Some(Head(rs))
         /\ results' = Tail(rs)
         /\ yielded' = Append(yielded, Head(rs))

\* next, buffer not empty: pop the front
NextBuffered ==
    /\ ret.kind \notin {"idle", "panic"}
    /\ ~NeedFetch(results)
    /\ PopFront(results)
    /\ UNCHANGED <<continuation_token, complete, fetchlog, fetched>>
    /\ UNCHANGED <<uploadVars, signVars>>

\* next, buffer empty and complete: return None
NextComplete ==
    /\ ret.kind \notin {"idle", "panic"}
    /\ NeedFetch(results)
    /\ complete
    /\ ret' = RetNone
    /\ UNCHANGED <<continuation_token, results, complete, fetchlog, fetched, yielded>>
    /\ UNCHANGED <<uploadVars, signVars>>

\* next, buffer empty: _list_objects returns Ok(v)
NextFetchOk ==
    /\ ret.kind \notin {"idle", "panic"}
    /\ NeedFetch(results)
    /\ ~complete
    /\ Len(fetchlog) < MaxFetches
    /\ \E n \in PageSizes, next_token \in Tokens \cup {None} :
         LET contents == [i \in 1..n |-> Len(fetched) + i] IN
         /\ fetchlog' = Append(fetchlog, [token |-> continuation_token, ok |-> TRUE,
                                          kind |-> "ok", next |-> next_token,
                                          error |-> None])
         /\ fetched' = fetched \o contents
         /\ continuation_token' = TokenAfter(next_token, continuation_token)
         /\ complete' = CompleteAfter(next_token, complete)
         /\ PopFront(PushBackAll(results, contents))
    /\ UNCHANGED <<uploadVars, signVars>>

\* next, buffer empty: _list_objects returns Err(e); error!(e); return None
NextFetchErr ==
    /\ ret.kind \notin {"idle", "panic"}
    /\ NeedFetch(results)
    /\ ~complete
    /\ Len(fetchlog) < MaxFetches
    /\ \E kind \in ListFailures :
         \* an answer without Contents elements may still name a following page
         \E next_token \in (IF kind = "nocontents" THEN Tokens \cup {None} ELSE {None}) :
            fetchlog' = Append(fetchlog, [token |-> continuation_token, ok |-> FALSE,
                                          kind |-> kind, next |-> next_token,
                                          error |-> ListError(kind)])
    /\ ret' = RetNone
    /\ UNCHANGED <<continuation_token, results, complete, fetched, yielded>>
    /\ UNCHANGED <<uploadVars, signVars>>

NextList ==
    \/ NextBuffered
    \/ NextComplete
    \/ NextFetchOk
    \/ NextFetchErr

(***************************************************************************)
(* Signing (src/hmac.rs)                                                   *)
(***************************************************************************)
\* Strings are sequences of byte values, so that case and order are computed.
S_Host == <<72, 111, 115, 116>>         \* "Host"
S_host == <<104, 111, 115, 116>>        \* "host"
S_XAmzDate == <<88, 45, 65, 109, 122, 45, 68, 97, 116, 101>>   \* "X-Amz-Date"
S_xamzdate == <<120, 45, 97, 109, 122, 45, 100, 97, 116, 101>>  \* "x-amz-date"
S_B == <<66>>   \* "B"
S_a == <<97>>   \* "a"
S_x == <<120>>  \* "x"
S_Y == <<89>>   \* "Y"
Colon == <<58>>      \* ":"
Newline == <<10>>    \* "\n"
Semicolon == <<59>>  \* ";"

HeaderNames == {S_Host, S_host, S_XAmzDate, S_xamzdate, S_B, S_a}
HeaderValues == {S_x, S_Y}

\* the BTreeMap<String, String> values passed to sign: functions from the set
\* of keys to the values
HeaderMaps ==
    UNION { [ks -> HeaderValues] : ks \in {k \in SUBSET HeaderNames : Cardinality(k) <= MaxHeaders} }

\* str::to_lowercase on ASCII
ToLowerByte(c) == IF c >= 65 /\ c <= 90 THEN c + 32 ELSE c
to_lowercase(str) == [i \in DOMAIN str |-> ToLowerByte(str[i])]

\* Ord for String: lexicographic on the bytes
RECURSIVE StrLess(_, _)
StrLess(a, b) ==
    IF b = <<>> THEN FALSE
    ELSE IF a = <<>> THEN TRUE
    ELSE IF a[1] # b[1] THEN a[1] < b[1]
    ELSE StrLess(Tail(a), Tail(b))

\* BTreeMap::iter(): the keys in ascending order of the keys as stored
RECURSIVE Iter(_)
Iter(ks) ==
    IF ks = {} THEN <<>>
    ELSE LET least == CHOOSE k \in ks : \A o \in ks \ {k} : StrLess(k, o)
         IN  <<least>> \o Iter(ks \ {least})

\* [String]::join(sep)
RECURSIVE Join(_, _)
Join(strs, sep) ==
    IF strs = <<>> THEN <<>>
    ELSE IF Len(strs) = 1 THEN strs[1]
    ELSE strs[1] \o sep \o Join(Tail(strs), sep)

RECURSIVE Concat(_)
Concat(strs) == IF strs = <<>> THEN <<>> ELSE strs[1] \o Concat(Tail(strs))

\* writeln!(cheaders, "{}:{}", key.to_lowercase(), value)
HeaderLine(k, value) == to_lowercase(k) \o Colon \o value \o Newline

\* header_list.push(key.to_string())
HeaderListEntry(k) == k

\* canonicalize_headers: (cheaders, header_list_str)
canonicalize_headers(h) ==
    LET ks == Iter(DOMAIN h) IN
    [cheaders |-> Concat([i \in DOMAIN ks |-> HeaderLine(ks[i], h[ks[i]])]),
     header_list_str |-> Join([i \in DOMAIN ks |-> HeaderListEntry(ks[i])], Semicolon)]

\* hexdigest / hmac: kept as the term they are applied to
hexdigest(data) == [sha256 |-> data]
hmac(k, data) == [hmac_key |-> k, hmac_data |-> data]

SIGTYPENAME == "AWS4-HMAC-SHA256"
Region == "us-standard"

\* sign: the canonical request as the fields written one per line, and the
\* Authorization header as the fields written into it
CanonicalRequest(http_method, path, h, payload_hash) ==
    LET ch == canonicalize_headers(h) IN
    [method |-> http_method, uri |-> path, query |-> <<>>,
     cheaders |-> ch.cheaders, signed_headers |-> ch.header_list_str,
     payload_hash |-> payload_hash]

sign(access_key_id, secret_access_key, date, http_method, path, h, payload_hash) ==
    LET cr == CanonicalRequest(http_method, path, h, payload_hash)
        scope == <<date, Region, "s3", "aws4_request">>
        string_to_sign == <<SIGTYPENAME, date, scope, hexdigest(cr)>>
        datekey == hmac(<<"AWS4", secret_access_key>>, date)
        dateregionkey == hmac(datekey, Region)
        dateregionservicekey == hmac(dateregionkey, "s3")
        signing_key == hmac(dateregionservicekey, "aws4_request")
    IN  [algorithm |-> SIGTYPENAME,
         credential |-> <<access_key_id, scope>>,
         signed_headers |-> canonicalize_headers(h).header_list_str,
         signature |-> hmac(signing_key, string_to_sign)]

\* one call of sign, as put_object makes it
Sign ==
    /\ spc = "input"
    /\ spc' = "signed"
    /\ creq' = CanonicalRequest("PUT", "/b/k", headers, "UNSIGNED-PAYLOAD")
    /\ auth' = sign("ak", "sk", "20221005", "PUT", "/b/k", headers, "UNSIGNED-PAYLOAD")
    /\ UNCHANGED headers
    /\ UNCHANGED <<uploadVars, listVars>>

NextSign == Sign

NextUpload ==
    \/ OpenFile
    \/ CreateMultipartUpload
    \/ ReadChunk
    \/ UploadPart
    \/ CompleteMultipartUpload
    \/ AbortMultipartUpload

\* main before its first statement; the iterator and the signer are not used
InitUpload ==
    /\ pc = "open"
    /\ bucket \in Buckets
    /\ key \in Keys
    /\ remaining \in FileSizes
    /\ chunk_len = 0
    /\ upload_id = None
    /\ parts = <<>>
    /\ calls = <<>>
    /\ chunks = <<>>
    /\ result = "running"
    /\ err = NoErr
    /\ continuation_token = None
    /\ results = <<>>
    /\ complete = FALSE
    /\ ret = RetIdle
    /\ fetchlog = <<>>
    /\ fetched = <<>>
    /\ yielded = <<>>
    /\ spc = "idle"
    /\ headers = <<>>
    /\ creq = <<>>
    /\ auth = <<>>

SpecUpload == InitUpload /\ [][NextUpload]_vars

\* ObjectIterator::new; the upload run and the signer are not used
InitList ==
    /\ pc = "idle"
    /\ bucket = "b1"
    /\ key = "k1"
    /\ remaining = 0
    /\ chunk_len = 0
    /\ upload_id = None
    /\ parts = <<>>
    /\ calls = <<>>
    /\ chunks = <<>>
    /\ result = "running"
    /\ err = NoErr
    /\ continuation_token = None
    /\ results = <<>>
    /\ complete = FALSE
    /\ ret = RetNew
    /\ fetchlog = <<>>
    /\ fetched = <<>>
    /\ yielded = <<>>
    /\ spc = "idle"
    /\ headers = <<>>
    /\ creq = <<>>
    /\ auth = <<>>

SpecList == InitList /\ [][NextList]_vars

\* a header map handed to sign; the upload run and the iterator are not used
InitSign ==
    /\ pc = "idle"
    /\ bucket = "b1"
    /\ key = "k1"
    /\ remaining = 0
    /\ chunk_len = 0
    /\ upload_id = None
    /\ parts = <<>>
    /\ calls = <<>>
    /\ chunks = <<>>
    /\ result = "running"
    /\ err = NoErr
    /\ continuation_token = None
    /\ results = <<>>
    /\ complete = FALSE
    /\ ret = RetIdle
    /\ fetchlog = <<>>
    /\ fetched = <<>>
    /\ yielded = <<>>
    /\ spc = "input"
    /\ headers \in HeaderMaps
    /\ creq = <<>>
    /\ auth = <<>>

SpecSign == InitSign /\ [][NextSign]_vars

(***************************************************************************)
(* Properties of the multipart upload run                                  *)
(***************************************************************************)
CallsOf(op) == SelectSeq(calls, LAMBDA c : c.op = op)
Failed(c) == c.outcome # "ok"
CompleteFailed == \E i \in DOMAIN calls : calls[i].op = "complete" /\ Failed(calls[i])
AbortFailed == \E i \in DOMAIN calls : calls[i].op = "abort" /\ Failed(calls[i])
CompleteSucceeded == \E i \in DOMAIN calls : calls[i].op = "complete" /\ ~Failed(calls[i])
InitiateSucceeded == \E i \in DOMAIN calls : calls[i].op = "create" /\ ~Failed(calls[i])
\* the failures carried by the error main returns
Reported == IF result = "Err" THEN {err} ELSE {}

C2_BothFailuresReported ==
    (pc = "exit" /\ CompleteFailed /\ AbortFailed) =>
        \A i \in DOMAIN calls :
            (calls[i].op \in {"complete", "abort"} /\ Failed(calls[i])) =>
                Failure(calls[i].op, calls[i].outcome) \in Reported

\* C3: the run reports success only if complete succeeded.
C3_SuccessOnlyIfCompleted ==
    result = "Ok" => CompleteSucceeded

\* C4: when every call of the run succeeds, the n non-empty chunks read are
\* uploaded by n upload_part calls numbered 1..n in reading order, complete is
\* called once with exactly <<(1, etag_1), .., (n, etag_n)>>, and abort is
\* never called.
C4_HappyPath ==
    (\A i \in DOMAIN calls : ~Failed(calls[i])) =>
        LET ups == CallsOf("upload_part")
            cmp == CallsOf("complete")
        IN  /\ Len(ups) \in {Len(chunks), Len(chunks) - 1}
            /\ pc \in {"read", "complete", "exit"} => Len(ups) = Len(chunks)
            /\ \A i \in DOMAIN ups :
                  /\ ups[i].part_number = i
                  /\ ups[i].len = chunks[i]
                  /\ ups[i].len > 0
            /\ Len(cmp) <= 1
            /\ Len(CallsOf("abort")) = 0
            /\ pc = "exit" /\ result = "Ok" => Len(cmp) = 1
            /\ \A j \in DOMAIN cmp :
                  /\ Len(ups) = Len(chunks)
                  /\ cmp[j].parts =
                        [i \in 1..Len(chunks) |-> [etag |-> ups[i].answer, part_number |-> i]]

\* a successful run of three parts
C4_Witness ==
    /\ pc = "exit"
    /\ result = "Ok"
    /\ CompleteSucceeded
    /\ Len(chunks) = 3
    /\ Len(CallsOf("abort")) = 0

\* C5: a run in which create succeeded ends with the session consumed: complete
\* succeeded, or an abort call was issued.
C5_SessionConsumed ==
    (pc = "exit" /\ InitiateSucceeded) =>
        (CompleteSucceeded \/ Len(CallsOf("abort")) = 1)

RECURSIVE SumSeq(_)
SumSeq(s) == IF s = <<>> THEN 0 ELSE s[1] + SumSeq(Tail(s))

FileLen == SumSeq(chunks) + remaining

\* C9: once the stream is read to its end, every chunk but the last has the
\* fixed size; a file of ChunkSize bytes gives one part, a file of
\* ChunkSize + 1 bytes gives two parts, the second of length 1.
C9_FixedSizeChunks ==
    (pc = "complete" /\ remaining = 0) =>
        /\ \A i \in 1..(Len(chunks) - 1) : chunks[i] = ChunkSize
        /\ FileLen = ChunkSize => (Len(parts) = 1 /\ chunks = <<ChunkSize>>)
        /\ FileLen = ChunkSize + 1 => (Len(parts) = 2 /\ chunks = <<ChunkSize, 1>>)

(***************************************************************************)
(* Properties of the listing iterator                                      *)
(***************************************************************************)
AllFetchesOk == \A i \in DOMAIN fetchlog : fetchlog[i].ok
LastFetchFailed == fetchlog # <<>> /\ ~Last(fetchlog).ok
\* the latest page came without a continuation token and is used up
Exhausted ==
    /\ fetchlog # <<>>
    /\ Last(fetchlog).ok
    /\ Last(fetchlog).next = None
    /\ results = <<>>

C6_Yields ==
    /\ ret # RetPanic
    /\ yielded \o results = fetched
    /\ \A i, j \in DOMAIN yielded : i # j => yielded[i] # yielded[j]
    /\ (ret = RetNone /\ AllFetchesOk) => (Exhausted /\ yielded = fetched)

C6_Idempotent ==
    Exhausted => (ret' = RetNone /\ fetchlog' = fetchlog /\ yielded' = yielded)

\* C6: over pages fetched successfully, next yields every item of every page
\* exactly once, in page order and in the order within the page, and signals
\* end-of-sequence only when the page without continuation token is used up;
\* from then on every call signals end-of-sequence and fetches no page.
C6_EveryItemOnceThenEnd == []C6_Yields /\ [][C6_Idempotent]_vars

\* two pages, three items, all yielded, end signalled
C6_Witness ==
    /\ Exhausted
    /\ ret = RetNone
    /\ AllFetchesOk
    /\ Len(fetchlog) = 2
    /\ yielded = <<1, 2, 3>>

\* C7: after a failed page fetch was signalled as end-of-sequence, no later
\* call of next issues a page fetch and every later call signals
\* end-of-sequence.
C7_NoRetryAfterFailure ==
    [][(LastFetchFailed /\ ret = RetNone) => (fetchlog' = fetchlog /\ ret' = RetNone)]_vars

RECURSIVE SplitFrom(_, _, _)
SplitFrom(str, sep, acc) ==
    IF str = <<>> THEN <<acc>>
    ELSE IF <<str[1]>> = sep THEN <<acc>> \o SplitFrom(Tail(str), sep, <<>>)
    ELSE SplitFrom(Tail(str), sep, Append(acc, str[1]))
SplitOn(str, sep) == IF str = <<>> THEN <<>> ELSE SplitFrom(str, sep, <<>>)

\* the part of a line before its first ':'
RECURSIVE NameOf(_)
NameOf(line) ==
    IF line = <<>> \/ <<line[1]>> = Colon THEN <<>>
    ELSE <<line[1]>> \o NameOf(Tail(line))

\* the names of the lines of a CanonicalHeaders block (each line ends in "\n")
LineNames(block) ==
    LET lines == SplitOn(block, Newline)
    IN  [i \in 1..(Len(lines) - 1) |-> NameOf(lines[i])]

S_host_xamzdate == <<104, 111, 115, 116, 59, 120, 45, 97, 109, 122, 45, 100, 97, 116, 101>>  \* "host;x-amz-date"

\* C10: SignedHeaders, in the canonical request and in the Authorization
\* header, is the lower-cased header names joined with ';', the same names in
\* the same order as the names of the CanonicalHeaders lines; the map
\* {"Host": "x", "X-Amz-Date": "Y"} gives host;x-amz-date.
C10_SignedHeadersMatchCanonical ==
    spc = "signed" =>
        LET ks == Iter(DOMAIN headers) IN
        /\ auth.signed_headers = creq.signed_headers
        /\ creq.signed_headers = Join([i \in DOMAIN ks |-> to_lowercase(ks[i])], Semicolon)
        /\ SplitOn(creq.signed_headers, Semicolon) = LineNames(creq.cheaders)
        /\ headers = (S_Host :> S_x @@ S_XAmzDate :> S_Y) =>
               creq.signed_headers = S_host_xamzdate

\* C11: the CanonicalHeaders block has one line lowercase-name:value per
\* header, in ascending order of the lower-cased names, whatever the case of
\* the names the caller supplied.
C11_CanonicalHeadersSortedByLowercase ==
    spc = "signed" =>
        LET lines == SplitOn(creq.cheaders, Newline)
            names == LineNames(creq.cheaders)
        IN  /\ Len(names) = Cardinality(DOMAIN headers)
            /\ \A k \in DOMAIN headers :
                  \E i \in DOMAIN names : lines[i] = to_lowercase(k) \o Colon \o headers[k]
            /\ \A i, j \in DOMAIN names : i < j => ~StrLess(names[j], names[i])

(***************************************************************************)
(* Properties of the listing results                                       *)
(***************************************************************************)
\* C12: an answer without the Contents field is reported as an empty result
\* and not as an error, and any other deserialization mismatch is reported as
\* a parse error.
C12_MissingContentsIsEmptyResult ==
    \A i \in DOMAIN fetchlog :
        /\ fetchlog[i].kind = "nocontents" => (fetchlog[i].ok /\ fetchlog[i].error = None)
        /\ fetchlog[i].kind = "parse" => (~fetchlog[i].ok /\ fetchlog[i].error = "parse")

(***************************************************************************)
(* Failures before completion                                              *)
(***************************************************************************)
\* C13: a failed create is the only call of its run; a failed upload_part is
\* the last call of its run, so no further part and no complete follow it;
\* every complete call comes after a successful create and successful
\* upload_part calls only, and each part it is given is the part number and
\* ETag of one of those calls.
C13_FailureStopsProtocol ==
    /\ \A i \in DOMAIN calls :
         /\ (calls[i].op = "create" /\ Failed(calls[i])) => Len(calls) = 1
         /\ (calls[i].op = "upload_part" /\ Failed(calls[i])) => (i = Len(calls) /\ pc = "exit")
         /\ calls[i].op # "create" => (calls[1].op = "create" /\ ~Failed(calls[1]))
    /\ \A j \in DOMAIN calls :
         calls[j].op = "complete" =>
            /\ \A i \in 1..(j - 1) : ~Failed(calls[i])
            /\ \A k \in DOMAIN calls[j].parts :
                  \E i \in 1..(j - 1) :
                     /\ calls[i].op = "upload_part"
                     /\ calls[i].part_number = calls[j].parts[k].part_number
                     /\ calls[i].answer = calls[j].parts[k].etag
            /\ Len(calls[j].parts) = Len(SelectSeq(SubSeq(calls, 1, j - 1),
                                                   LAMBDA c : c.op = "upload_part"))

\* a run stopped by the failure of its second upload_part call
C13_Witness ==
    /\ pc = "exit"
    /\ result = "Err"
    /\ Len(calls) = 3
    /\ calls[3].op = "upload_part"
    /\ Failed(calls[3])
    /\ Len(parts) = 1

(***************************************************************************)
(* Pages without items                                                     *)
(***************************************************************************)
\* the latest answer was fetched with a 2xx status and holds zero items
LastPageEmpty == fetchlog # <<>> /\ Last(fetchlog).kind = "nocontents"

\* C14: every call of next returns an item or end-of-sequence and never panics
\* on an empty buffer; after a fetched page of zero items the iterator has
\* taken up the continuation token of that page if it has one (it proceeds to
\* the following page), and has signalled end-of-sequence if it has none.
C14_NextOverEmptyPages ==
    /\ ret.kind \in {"new", "Some", "None"}
    /\ LastPageEmpty =>
         IF Last(fetchlog).next # None
         THEN continuation_token = Last(fetchlog).next
         ELSE ret = RetNone

====
